---- MODULE Spec2Model ----
(***************************************************************************)
(* Model of riddles/riddle_solver.py: the digest matcher, the registry     *)
(* scan, the brute-force resolver, the result writer, the verification     *)
(* pass, the clear command and the command-line dispatch.                  *)
(*                                                                         *)
(* Strings are sequences of characters.  sha1 is modelled as an injective  *)
(* numeral encoding of the byte sequence (collision freedom is assumed).   *)
(***************************************************************************)
EXTENDS Integers, Sequences, FiniteSets, TLC

VARIABLES
    verify,     \* per riddle directory: content of verify.py (abstracted)
    solfile,    \* per riddle directory: raw content of solution.txt, or NoFile
    data,       \* title column of every line of data.tsv, or NoData
    args,       \* the flags of the running invocation
    pc,         \* position of the running invocation
    hashes,     \* ordered dict riddle -> hash        (PendingSet)
    solutions,  \* ordered dict riddle -> solution    (SolvedMap)
    i,          \* loop index of find_solutions (python index into lines)
    found,      \* printed "Found solution for riddle" messages of this run
    log,        \* top-level operations executed by this invocation, in order
    report,     \* table printed by the last check_solutions
    prev_checked, \* whether the previous invocation printed the table
    h_in, s_in, c_out  \* arguments and result of a stand-alone check_hash call

vars == <<verify, solfile, data, args, pc, hashes, solutions, i, found, log,
          report, prev_checked, h_in, s_in, c_out>>

----------------------------------------------------------------------------
(* Bounds *)
NumRiddles == 2
MaxLines == 4
MaxLen == 2

Riddles == 0 .. (NumRiddles - 1)

----------------------------------------------------------------------------
(* Strings *)
None == <<"None">>          \* python None where a str is expected
NoFile == <<"NoFile">>      \* solution.txt does not exist
NoData == <<"NoData">>      \* data.tsv does not exist
NoneHash == -1              \* python None where a hash is expected
NoVerify == -2              \* verify.py does not exist
NoAssert == -3              \* verify.py holds no assertion line

Chars == {"a", "A", " "}

RECURSIVE StringsUpTo(_)
StringsUpTo(n) ==
    IF n = 0 THEN {<<>>}
    ELSE LET S == StringsUpTo(n - 1)
         IN  S \cup {Append(s, c) : s \in {t \in S : Len(t) = n - 1}, c \in Chars}

LowerChar(c) == CASE c = "A" -> "a" [] c = "B" -> "b" [] OTHER -> c

lower(s) == [k \in 1 .. Len(s) |-> LowerChar(s[k])]

RECURSIVE lstrip(_)
lstrip(s) == IF s # <<>> /\ Head(s) = " " THEN lstrip(Tail(s)) ELSE s

RECURSIVE rstrip(_)
rstrip(s) ==
    IF s # <<>> /\ s[Len(s)] = " " THEN rstrip(SubSeq(s, 1, Len(s) - 1)) ELSE s

strip(s) == rstrip(lstrip(s))

Byte(c) == CASE c = " " -> 1 [] c = "a" -> 2 [] c = "A" -> 3 [] c = "b" -> 4 [] c = "B" -> 5

RECURSIVE sha1(_)
sha1(s) == IF s = <<>> THEN 0 ELSE sha1(SubSeq(s, 1, Len(s) - 1)) * 6 + Byte(s[Len(s)])

----------------------------------------------------------------------------
(* Leaf functions *)

get_solution_with(sf, dir) ==
    IF sf[dir] # NoFile
    THEN LET solution == strip(sf[dir])
         IN  IF solution # <<>> THEN solution ELSE None
    ELSE None

get_solution(dir) == get_solution_with(solfile, dir)

get_hash(dir) ==
    IF verify[dir] # NoVerify
    THEN IF verify[dir] # NoAssert THEN verify[dir] ELSE NoneHash
    ELSE NoneHash

check_hash_inverted(hash, solution) ==
    solution # None /\ solution # <<>> /\ sha1(lower(strip(solution))) # hash

check_hash_nolower(hash, solution) ==
    solution # None /\ solution # <<>> /\ sha1(strip(solution)) = hash

check_hash(hash, solution) ==
    solution # None /\ solution # <<>> /\ sha1(lower(strip(solution))) = hash

check_riddle(dir) == check_hash(get_hash(dir), get_solution(dir))

----------------------------------------------------------------------------
(* Ordered dicts: sequences of [k, v] with distinct keys *)

Keys(d) == {d[j].k : j \in 1 .. Len(d)}

Lookup(d, key) == (CHOOSE j \in 1 .. Len(d) : d[j].k = key)

DictSet(d, key, val) ==
    IF key \in Keys(d)
    THEN [d EXCEPT ![Lookup(d, key)] = [k |-> key, v |-> val]]
    ELSE Append(d, [k |-> key, v |-> val])

DictDel(d, j) == SubSeq(d, 1, j - 1) \o SubSeq(d, j + 1, Len(d))

Orders == {o \in [1 .. NumRiddles -> Riddles] :
              \A a, b \in 1 .. NumRiddles : o[a] = o[b] => a = b}

----------------------------------------------------------------------------
(* Riddle Registry *)

RECURSIVE scan(_, _, _)
scan(order, hs, sols) ==
    IF order = <<>> THEN <<hs, sols>>
    ELSE LET file == Head(order)
         IN  IF check_riddle(file)
             THEN scan(Tail(order), hs, DictSet(sols, file, get_solution(file)))
             ELSE scan(Tail(order), DictSet(hs, file, get_hash(file)), sols)

get_hashes_and_solutions(order) == scan(order, <<>>, <<>>)

----------------------------------------------------------------------------
(* Brute-Force Resolver *)

total == Len(data)

title_at(n) == data[n + 1]      \* lines[n].split("\t")[title_index]

\* position in hs of the first entry whose hash the title matches, 0 if none
first_match(hs, title) ==
    LET M == {j \in 1 .. Len(hs) : check_hash(hs[j].v, title)}
    IN  IF M = {} THEN 0 ELSE CHOOSE j \in M : \A m \in M : j <= m

\* one iteration of the outer loop: <<hashes, solutions, found>> after it
try_title_keep(hs, sols, fnd, title) ==
    LET j == first_match(hs, title)
    IN  IF j = 0 THEN <<hs, sols, fnd>>
        ELSE <<hs,
               DictSet(sols, hs[j].k, title),
               Append(fnd, [riddle |-> hs[j].k, hash |-> hs[j].v, solution |-> title])>>

try_title(hs, sols, fnd, title) ==
    LET j == first_match(hs, title)
    IN  IF j = 0 THEN <<hs, sols, fnd>>
        ELSE <<DictDel(hs, j),
               DictSet(sols, hs[j].k, title),
               Append(fnd, [riddle |-> hs[j].k, hash |-> hs[j].v, solution |-> title])>>

----------------------------------------------------------------------------
(* Result Writer, Verification Pass, clear *)

write_solutions(sols) ==
    [r \in Riddles |->
        IF r \in Keys(sols) THEN strip(sols[Lookup(sols, r)].v) ELSE solfile[r]]

check_table ==
    [r \in Riddles |->
        [hash |-> get_hash(r), solution |-> get_solution(r),
         correct |-> check_hash(get_hash(r), get_solution(r))]]

clear_solutions == [r \in Riddles |-> NoFile]

----------------------------------------------------------------------------
(* Command line *)

Flags == [clear : BOOLEAN, check : BOOLEAN, solve : BOOLEAN]

NoFlags == [clear |-> FALSE, check |-> FALSE, solve |-> FALSE]

runs_solve_if(a) == a.solve

runs_solve(a) == ~a.check /\ a.solve

----------------------------------------------------------------------------
(* Inputs *)

TitleSet == {<<"A", " ">>, <<"a">>, <<" ">>}

RECURSIVE SeqsUpTo(_, _)
SeqsUpTo(S, n) ==
    IF n = 0 THEN {<<>>}
    ELSE LET P == SeqsUpTo(S, n - 1)
         IN  P \cup {Append(s, x) : s \in {t \in P : Len(t) = n - 1}, x \in S}

Datasets == SeqsUpTo(TitleSet, MaxLines)

VerifySet == {NoVerify, NoAssert, sha1(<<>>), sha1(<<"a">>), sha1(<<"b">>)}

SolFileSet == {NoFile, <<"B", " ">>, <<" ">>}

NoReport == [r \in Riddles |-> [hash |-> NoneHash, solution |-> None, correct |-> FALSE]]

----------------------------------------------------------------------------
(* The program *)

HashIdle == /\ h_in = NoneHash /\ s_in = None /\ c_out = "idle"

Init ==
    /\ verify \in [Riddles -> VerifySet]
    /\ solfile \in [Riddles -> SolFileSet]
    /\ data = NoData
    /\ args = NoFlags
    /\ pc = "idle"
    /\ hashes = <<>>
    /\ solutions = <<>>
    /\ i = 0
    /\ found = <<>>
    /\ log = <<>>
    /\ report = NoReport
    /\ prev_checked = FALSE
    /\ HashIdle

Invoke ==
    /\ pc \in {"idle", "done"}
    /\ \E a \in Flags : args' = a
    /\ pc' = "clear"
    /\ prev_checked' = (\E n \in 1 .. Len(log) : log[n] = "check_solutions")
    /\ hashes' = <<>> /\ solutions' = <<>> /\ i' = 0 /\ found' = <<>> /\ log' = <<>>
    /\ UNCHANGED <<verify, solfile, data, report, h_in, s_in, c_out>>

ClearSolutions ==
    /\ pc = "clear" /\ args.clear
    /\ solfile' = clear_solutions
    /\ log' = Append(log, "clear_solutions")
    /\ pc' = "dispatch"
    /\ UNCHANGED <<verify, data, args, hashes, solutions, i, found, report,
                   prev_checked, h_in, s_in, c_out>>

SkipClear ==
    /\ pc = "clear" /\ ~args.clear
    /\ pc' = "dispatch"
    /\ UNCHANGED <<verify, solfile, data, args, hashes, solutions, i, found, log,
                   report, prev_checked, h_in, s_in, c_out>>

CheckSolutions ==
    /\ pc = "dispatch" /\ args.check
    /\ report' = check_table
    /\ log' = Append(log, "check_solutions")
    /\ pc' = "done"
    /\ UNCHANGED <<verify, solfile, data, args, hashes, solutions, i, found,
                   prev_checked, h_in, s_in, c_out>>

NoCommand ==
    /\ pc = "dispatch" /\ ~args.check /\ ~args.solve
    /\ pc' = "done"
    /\ UNCHANGED <<verify, solfile, data, args, hashes, solutions, i, found, log,
                   report, prev_checked, h_in, s_in, c_out>>

ExecScan ==
    /\ pc = "dispatch" /\ runs_solve(args)
    /\ \E order \in Orders :
          LET hs == get_hashes_and_solutions(order)
          IN  hashes' = hs[1] /\ solutions' = hs[2]
    /\ log' = Append(log, "get_hashes_and_solutions")
    /\ pc' = "scanned"
    /\ UNCHANGED <<verify, solfile, data, args, i, found, report, prev_checked,
                   h_in, s_in, c_out>>

NoHashes ==
    /\ pc = "scanned" /\ Len(hashes) = 0
    /\ report' = check_table
    /\ log' = Append(log, "check_solutions")
    /\ pc' = "done"
    /\ UNCHANGED <<verify, solfile, data, args, hashes, solutions, i, found,
                   prev_checked, h_in, s_in, c_out>>

DownloadData ==
    /\ pc = "scanned" /\ Len(hashes) # 0
    /\ IF data # NoData THEN data' = data ELSE data' \in Datasets
    /\ log' = Append(log, "download_data")
    /\ i' = 1
    /\ pc' = "find"
    /\ UNCHANGED <<verify, solfile, args, hashes, solutions, found, report,
                   prev_checked, h_in, s_in, c_out>>

FindStep ==
    /\ pc = "find" /\ i < total - 1
    /\ LET r == try_title(hashes, solutions, found, title_at(i))
       IN  hashes' = r[1] /\ solutions' = r[2] /\ found' = r[3]
    /\ i' = i + 1
    /\ UNCHANGED <<verify, solfile, data, args, pc, log, report, prev_checked,
                   h_in, s_in, c_out>>

FindDone ==
    /\ pc = "find" /\ ~(i < total - 1)
    /\ log' = Append(log, "find_solutions")
    /\ pc' = "write"
    /\ UNCHANGED <<verify, solfile, data, args, hashes, solutions, i, found,
                   report, prev_checked, h_in, s_in, c_out>>

WriteSolutions ==
    /\ pc = "write"
    /\ solfile' = write_solutions(solutions)
    /\ log' = Append(log, "write_solutions")
    /\ pc' = "done"
    /\ UNCHANGED <<verify, data, args, hashes, solutions, i, found, report,
                   prev_checked, h_in, s_in, c_out>>

Next ==
    \/ Invoke
    \/ ClearSolutions
    \/ SkipClear
    \/ CheckSolutions
    \/ NoCommand
    \/ ExecScan
    \/ NoHashes
    \/ DownloadData
    \/ FindStep
    \/ FindDone
    \/ WriteSolutions

Spec == Init /\ [][Next]_vars

----------------------------------------------------------------------------
(* Stand-alone calls of check_hash on every small argument pair *)

HashInputs ==
    {sha1(lower(strip(s))) : s \in StringsUpTo(MaxLen)} \cup {sha1(<<"b">>), NoneHash}

InitHash ==
    /\ verify = [r \in Riddles |-> NoVerify]
    /\ solfile = [r \in Riddles |-> NoFile]
    /\ data = NoData
    /\ args = NoFlags
    /\ pc = "idle"
    /\ hashes = <<>>
    /\ solutions = <<>>
    /\ i = 0
    /\ found = <<>>
    /\ log = <<>>
    /\ report = NoReport
    /\ prev_checked = FALSE
    /\ h_in \in HashInputs
    /\ s_in \in StringsUpTo(MaxLen) \cup {None}
    /\ c_out = "unset"

CallCheckHash ==
    /\ c_out = "unset"
    /\ c_out' = IF check_hash(h_in, s_in) THEN "True" ELSE "False"
    /\ UNCHANGED <<verify, solfile, data, args, pc, hashes, solutions, i, found,
                   log, report, prev_checked, h_in, s_in>>

NextHash == CallCheckHash

SpecHash == InitHash /\ [][NextHash]_vars

----------------------------------------------------------------------------
(* Vocabulary of the properties *)

Normalize(s) == lower(strip(s))

\* the digest matcher as section 4.1 of the specification states it
Matches(digest, candidate) ==
    /\ candidate # None
    /\ Normalize(candidate) # <<>>
    /\ sha1(Normalize(candidate)) = digest

RiddleState(sf, r) ==
    LET answer == get_solution_with(sf, r)
    IN  IF answer = None THEN "UNSOLVED"
        ELSE IF Matches(get_hash(r), answer) THEN "SOLVED" ELSE "WRONG"

Count(d, key) == Cardinality({j \in 1 .. Len(d) : d[j].k = key})

Logged(op) == \E n \in 1 .. Len(log) : log[n] = op

----------------------------------------------------------------------------
(* C1: right after the registry scan, every riddle directory that has a    *)
(* digest is in exactly one of hashes and solutions: in solutions iff its  *)
(* recorded answer matches its digest, in hashes otherwise.                *)
C1_Partition ==
    pc = "scanned" =>
        \A r \in Riddles :
            get_hash(r) # NoneHash =>
                LET solved == Matches(get_hash(r), get_solution(r))
                IN  /\ Count(solutions, r) = (IF solved THEN 1 ELSE 0)
                    /\ Count(hashes, r) = (IF solved THEN 0 ELSE 1)

C1_Witness ==
    /\ pc = "scanned"
    /\ \E r \in Keys(solutions) : get_hash(r) # NoneHash /\ solfile[r] # get_solution(r)
    /\ \E r \in Keys(hashes) : get_hash(r) # NoneHash /\ get_solution(r) # None

(* C2: right after the registry scan, a riddle directory without a digest  *)
(* is in neither hashes nor solutions, and hashes holds no None digest.    *)
C2_NoDigestExcluded ==
    pc = "scanned" =>
        /\ \A r \in Riddles :
              get_hash(r) = NoneHash => r \notin Keys(hashes) \cup Keys(solutions)
        /\ \A n \in 1 .. Len(hashes) : hashes[n].v # NoneHash

(* C3: in find_solutions, a candidate that normalize-matches a digest for  *)
(* which an earlier candidate was already recorded is a no-op: it changes  *)
(* neither hashes nor solutions.                                           *)
C3_FirstMatchWins ==
    [][((/\ pc = "find"
         /\ i < total - 1
         /\ \E n \in 1 .. Len(found) : found[n].hash = sha1(Normalize(title_at(i))))
        => (hashes' = hashes /\ solutions' = solutions))]_vars

(* C4: every step of the resolve pass keeps |hashes| from growing and      *)
(* |solutions| from shrinking, re-adds no index to hashes, keeps every     *)
(* existing solutions entry as it is, and preserves |hashes|+|solutions|.  *)
C4_Monotone ==
    [][(pc \in {"scanned", "find"} =>
         /\ Len(hashes') <= Len(hashes)
         /\ Len(solutions') >= Len(solutions)
         /\ Keys(hashes') \subseteq Keys(hashes)
         /\ \A n \in 1 .. Len(solutions) : solutions'[n] = solutions[n]
         /\ Len(hashes') + Len(solutions') = Len(hashes) + Len(solutions))]_vars

C4_Witness ==
    /\ pc = "write"
    /\ Len(found) >= 1
    /\ Len(solutions) > Len(found)

(* C5: check_hash returns true iff the hash of the trimmed, lowercased     *)
(* candidate equals the digest and the candidate is non-empty after        *)
(* normalization.                                                          *)
C5_MatcherContract ==
    c_out \in {"True", "False"} =>
        ((c_out = "True") <=>
            (/\ s_in # None
             /\ sha1(lower(strip(s_in))) = h_in
             /\ lower(strip(s_in)) # <<>>))

C7_NoPendingSkips ==
    (/\ pc \in {"scanned", "find", "write", "done"}
     /\ Logged("get_hashes_and_solutions")
     /\ found = <<>>
     /\ \A r \in Riddles : get_hash(r) # NoneHash => r \in Keys(solutions))
    => (/\ pc \in {"scanned", "done"}
        /\ ~Logged("download_data")
        /\ ~Logged("find_solutions")
        /\ ~Logged("write_solutions"))

(* C8: an invocation with --check and without --clear only runs            *)
(* check_solutions, also when --solve is given; it changes no answer       *)
(* artifact and no digest, and prints the same table as the invocation     *)
(* before it if that one printed the table; with --clear, clear_solutions  *)
(* is the first operation of the invocation and runs once.                 *)
C8_CheckPure ==
    [][(/\ (args.check /\ ~args.clear /\ pc \in {"clear", "dispatch"}) =>
             /\ solfile' = solfile /\ verify' = verify /\ data' = data
             /\ pc' \in {"dispatch", "done"}
             /\ pc = "dispatch" =>
                   /\ log' = <<"check_solutions">>
                   /\ \A r \in Riddles :
                         report'[r] = [hash |-> get_hash(r),
                                       solution |-> get_solution(r),
                                       correct |-> RiddleState(solfile, r) = "SOLVED"]
                   /\ prev_checked => report' = report
        /\ (args.clear /\ pc \in {"clear", "dispatch"}) =>
             /\ log' # <<>> /\ log'[1] = "clear_solutions"
             /\ \A n \in 2 .. Len(log') : log'[n] # "clear_solutions")]_vars

C8_Witness ==
    /\ pc = "done"
    /\ args.check /\ args.solve /\ ~args.clear
    /\ prev_checked
    /\ log = <<"check_solutions">>
    /\ \E r \in Riddles : get_hash(r) # NoneHash /\ RiddleState(solfile, r) # "SOLVED"

(* C9: every entry of solutions matches the digest of its riddle during    *)
(* the scan and the resolve pass, and after write_solutions every riddle   *)
(* in solutions is one the verification pass reports CORRECT.              *)
C9_Sound ==
    /\ pc \in {"scanned", "find", "write"} =>
          \A n \in 1 .. Len(solutions) :
              check_hash(get_hash(solutions[n].k), solutions[n].v)
    /\ (pc = "done" /\ Logged("write_solutions")) =>
          \A n \in 1 .. Len(solutions) :
              check_hash(get_hash(solutions[n].k), get_solution(solutions[n].k))

====
